---- MODULE Spec2Model ----
(***************************************************************************)
(* A model of edgar_cik_crawler.py: the driver main and the functions it   *)
(* calls (get_soup_contents, extract_data_from_text_files,                 *)
(* extract_xml_content_from_text, convert_to_tsv).                         *)
(*                                                                         *)
(* A Python str is a sequence of one-character strings, so that substring  *)
(* tests, strip, split, join and replace are computed character by         *)
(* character.  None is the empty tuple and a value v that may be None is   *)
(* carried as <<v>>.                                                       *)
(***************************************************************************)
EXTENDS Integers, Sequences, FiniteSets, TLC

VARIABLES
    pc,                \* position of the script
    exc,               \* the exception that escaped main, if any
    ticker_id,         \* main's argument
    filter_text,       \* main's argument
    page_data,         \* the index page returned by make_request(url)
    docs_contents,     \* list of (doc_title, full_link, filing_date)
    each,              \* position of main's for loop in docs_contents (1-based)
    inner_page_data,   \* extract_data_from_text_files: the detail page
    inner_links,       \* extract_data_from_text_files: candidate links
    xml_found,         \* extract_data_from_text_files: an .xml link was seen
    headers,           \* the answers to the content-length probes so far
    inner_links_info,  \* extract_data_from_text_files: (link, content length)
    requested,         \* the link whose body was last asked for (None before)
    text_data,         \* what extract_data_from_text_files returned
    xml_data,          \* what extract_xml_content_from_text returned
    res_lines,         \* convert_to_tsv: the records of the last call
    results_dir,       \* whether the directory results exists
    files,             \* the files under results: path -> content
    results_files      \* main's list of written file names

vars == <<pc, exc, ticker_id, filter_text, page_data, docs_contents, each,
          inner_page_data, inner_links, xml_found, headers, inner_links_info,
          requested, text_data, xml_data, res_lines, results_dir, files,
          results_files>>

None == <<>>
Some(v) == <<v>>

-----------------------------------------------------------------------------
(* Bounds of the model *)

\* rows of the filings table of an index page
MaxRows == 2
\* document links of a filing detail page
MaxLinks == 2
\* nodes of a document handed to extract_xml_content_from_text on its own
MaxNodes == 3
\* longest text block enumerated character by character
MaxText == 5
\* number of tokens of the enumerated long lines
NumTokens == 7

-----------------------------------------------------------------------------
(* Python's str and list operations *)

\* characters str.strip() and str.split() treat as whitespace
Whitespace == {" ", "\t", "\n", "\r"}

\* sub in s
Contains(s, sub) ==
    \E i \in 0..(Len(s) - Len(sub)) : \A k \in 1..Len(sub) : s[i + k] = sub[k]

\* x in list
InList(x, list) == \E i \in 1..Len(list) : list[i] = x

\* list[0:n]
Take(list, n) == SubSeq(list, 1, IF Len(list) < n THEN Len(list) ELSE n)

\* s.strip()
strip(s) ==
    LET keep == {i \in 1..Len(s) : s[i] \notin Whitespace}
    IN  IF keep = {} THEN <<>>
        ELSE SubSeq(s, CHOOSE i \in keep : \A j \in keep : i <= j,
                       CHOOSE i \in keep : \A j \in keep : i >= j)

\* s.split(c) for a one-character separator c: empty pieces are kept
RECURSIVE split_on(_, _)
split_on(s, c) ==
    LET at == {i \in 1..Len(s) : s[i] = c}
    IN  IF at = {} THEN <<s>>
        ELSE LET i == CHOOSE i \in at : \A j \in at : i <= j
             IN  <<SubSeq(s, 1, i - 1)>> \o split_on(SubSeq(s, i + 1, Len(s)), c)

\* list(filter(None, list)): the empty strings are dropped
RECURSIVE filter_none(_)
filter_none(list) ==
    IF list = <<>> THEN <<>>
    ELSE (IF Head(list) = <<>> THEN <<>> ELSE <<Head(list)>>)
         \o filter_none(Tail(list))

\* s.split(): any run of whitespace separates, no empty piece
RECURSIVE split_ws(_)
split_ws(s) ==
    LET at == {i \in 1..Len(s) : s[i] \in Whitespace}
    IN  IF at = {} THEN (IF s = <<>> THEN <<>> ELSE <<s>>)
        ELSE LET i == CHOOSE i \in at : \A j \in at : i <= j
             IN  (IF i = 1 THEN <<>> ELSE <<SubSeq(s, 1, i - 1)>>)
                 \o split_ws(SubSeq(s, i + 1, Len(s)))

\* sep.join(list)
RECURSIVE join(_, _)
join(sep, list) ==
    IF list = <<>> THEN <<>>
    ELSE IF Len(list) = 1 THEN Head(list)
    ELSE Head(list) \o sep \o join(sep, Tail(list))

\* list.remove(x): the first occurrence goes (x is in the list)
list_remove(list, x) ==
    LET i == CHOOSE i \in 1..Len(list) :
                 list[i] = x /\ \A j \in 1..(i - 1) : list[j] # x
    IN  SubSeq(list, 1, i - 1) \o SubSeq(list, i + 1, Len(list))

\* s.replace(a, b) for one-character a and b
RECURSIVE replace(_, _, _)
replace(s, a, b) ==
    IF s = <<>> THEN <<>>
    ELSE <<IF Head(s) = a THEN b ELSE Head(s)>> \o replace(Tail(s), a, b)

-----------------------------------------------------------------------------
(* convert_to_tsv *)

\* line.split(' ')[0:6] with the empty pieces dropped
name_tokens(line) == filter_none(Take(split_on(line, " "), 6))

\* the for loop over new_line_name_tokens: a name token found among the first
\* six of the remaining tokens is removed from them
RECURSIVE remove_name_tokens(_, _)
remove_name_tokens(names, new_line_tokens) ==
    IF names = <<>> THEN new_line_tokens
    ELSE remove_name_tokens(Tail(names),
            IF InList(Head(names), Take(new_line_tokens, 6))
            THEN list_remove(new_line_tokens, Head(names))
            ELSE new_line_tokens)

\* the record of one line: the name, then the tokens that are left
res_line_tokens(line) ==
    <<join(<<" ">>, name_tokens(line))>>
    \o remove_name_tokens(name_tokens(line), split_ws(line))

\* tsv_lines without the strip of line 31
tsv_lines_unstripped(text) == split_on(text, "\n")

\* the lines the loop runs over
tsv_lines(text) == split_on(strip(text), "\n")

\* res_lines after the loop
RECURSIVE records_of(_)
records_of(lines) ==
    IF lines = <<>> THEN <<>>
    ELSE <<res_line_tokens(Head(lines))>> \o records_of(Tail(lines))

tsv_res_lines(text) == records_of(tsv_lines(text))

\* what is written to the file: each record tab-joined, then a newline
RECURSIVE tsv_file_content(_)
tsv_file_content(records) ==
    IF records = <<>> THEN <<>>
    ELSE join(<<"\t">>, Head(records)) \o <<"\n">>
         \o tsv_file_content(Tail(records))

\* 'results/' + filename + '.tsv'
tsv_path(filename) ==
    <<"r", "e", "s", "u", "l", "t", "s", "/">> \o filename
    \o <<".", "t", "s", "v">>

\* the effect of convert_to_tsv(filename, text)
convert_to_tsv(filename, text) ==
    /\ res_lines' = tsv_res_lines(text)
    /\ results_dir' = TRUE
    /\ files' = (tsv_path(filename) :> tsv_file_content(tsv_res_lines(text)))
                @@ files

-----------------------------------------------------------------------------
(* extract_xml_content_from_text *)

\* A parsed document is the list of its nodes in document order, each with
\* its depth in the tree, its text (before its first child) and its tail
\* (after its end tag).  etree.fromstring with the recovering parser gives
\* None when nothing can be recovered: that is the empty list of nodes.
fromstring(doc) == IF doc = <<>> THEN None ELSE Some(doc)

UpperCase == <<"A", "B", "C", "D", "E", "F", "G", "H", "I", "J", "K", "L", "M",
               "N", "O", "P", "Q", "R", "S", "T", "U", "V", "W", "X", "Y", "Z">>
LowerCase == <<"a", "b", "c", "d", "e", "f", "g", "h", "i", "j", "k", "l", "m",
               "n", "o", "p", "q", "r", "s", "t", "u", "v", "w", "x", "y", "z">>

\* s.lower()
RECURSIVE lower(_)
lower(s) ==
    IF s = <<>> THEN <<>>
    ELSE <<IF \E k \in 1..26 : UpperCase[k] = Head(s)
           THEN LowerCase[CHOOSE k \in 1..26 : UpperCase[k] = Head(s)]
           ELSE Head(s)>> \o lower(Tail(s))

filter_vals ==
    << <<"S", " ", "R", "E", "P", "O", "R", "T", " ", "S", "U", "M", "M", "A",
         "R", "Y">>,
       <<"F", "O", "R", "M", " ", "1", "3", "F", " ", "I", "N", "F", "O", "R",
         "M", "A", "T", "I", "O", "N", " ", "T", "A", "B", "L", "E">>,
       <<"S", "H", "A", "R", "E", "S", "/", " ", "S", "H", "/", " ", "P", "U",
         "T", "/", " ", "I", "N", "V", "S", "T", "M", "T">>,
       <<"T", "o", "t", "a", "l", " ", " ", " ", "(", " ">> >>

\* the last node of the subtree of node i
subtree_end(doc, i) ==
    CHOOSE j \in i..Len(doc) :
        /\ \A k \in (i + 1)..j : doc[k].depth > doc[i].depth
        /\ j = Len(doc) \/ doc[j + 1].depth <= doc[i].depth

\* ''.join(node.itertext()): the node's text, then each child's text in
\* document order followed by that child's tail
RECURSIVE itertext(_, _)
RECURSIVE children_text(_, _, _)
children_text(doc, i, j) ==
    IF j > subtree_end(doc, i) THEN <<>>
    ELSE itertext(doc, j) \o doc[j].tail
         \o children_text(doc, i, subtree_end(doc, j) + 1)
itertext(doc, i) == doc[i].text \o children_text(doc, i, i + 1)

\* str(node.tag).lower() == "table"
is_table(node) == lower(node.tag) = <<"t", "a", "b", "l", "e">>

\* filter_found with the last of filter_vals forgotten
filter_found_but_last(line) ==
    \E k \in 1..(Len(filter_vals) - 1) : Contains(line, filter_vals[k])

\* the inner loops: a line with one of filter_vals in it is dropped
filter_found(line) ==
    \E k \in 1..Len(filter_vals) : Contains(line, filter_vals[k])

RECURSIVE kept_lines(_)
kept_lines(lines) ==
    IF lines = <<>> THEN <<>>
    ELSE (IF filter_found(Head(lines)) THEN <<>> ELSE <<Head(lines)>>)
         \o kept_lines(Tail(lines))

\* xml_results after the loop over doc_tree.iter() has reached node i
RECURSIVE xml_results_from(_, _)
xml_results_from(doc, i) ==
    IF i > Len(doc) THEN <<>>
    ELSE (IF is_table(doc[i])
          THEN kept_lines(split_on(itertext(doc, i), "\n"))
          ELSE <<>>)
         \o xml_results_from(doc, i + 1)

extract_xml_content_from_text(doc) ==
    IF fromstring(doc) # None
    THEN Some(join(<<"\n">>, xml_results_from(doc, 1)))
    ELSE None

-----------------------------------------------------------------------------
(* get_soup_contents *)

BASE_URL == <<"h", "t", "t", "p", "s", ":", "/", "/", "w", "w", "w", ".", "s",
              "e", "c", ".", "g", "o", "v", "/">>

\* An index page: whether it has a table of class tableFile2 and, per tr of
\* it, the list of its td cells; a cell has its text and its first anchor
\* (a: no anchor <<>>, or <<[has_href, href]>>).

\* whether the body of the try of one row runs to the append
row_appended(row, filter) ==
    /\ Len(row) >= 4                               \* row[0], row[3]
    /\ Contains(strip(row[1].text), filter)        \* filter_text in doc_title
    /\ row[2].a # <<>>                             \* a_content is not None
    /\ row[2].a[1].has_href                        \* a_content['href']

\* the tuple appended for a row
row_tuple(row) ==
    <<strip(row[1].text), BASE_URL \o row[2].a[1].href, strip(row[4].text)>>

RECURSIVE table_content(_, _)
table_content(rows, filter) ==
    IF rows = <<>> THEN <<>>
    ELSE (IF row_appended(Head(rows), filter)
          THEN <<row_tuple(Head(rows))>> ELSE <<>>)
         \o table_content(Tail(rows), filter)

\* the call: table.findAll on None raises AttributeError
get_soup_contents(page, filter) ==
    IF ~page.table
    THEN [raised |-> TRUE, value |-> <<>>]
    ELSE [raised |-> FALSE, value |-> table_content(page.rows, filter)]

-----------------------------------------------------------------------------
(* extract_data_from_text_files *)

DOT_XML == <<".", "x", "m", "l">>
DOT_TXT == <<".", "t", "x", "t">>

\* The loop over inner_hrefs: inner_links and xml_found after it.  An href with
\* '.xml' in it is appended and ends the loop; one with '.txt' in it is
\* appended.
RECURSIVE collect_links(_)
collect_links(hrefs) ==
    IF hrefs = <<>> THEN [links |-> <<>>, xml |-> FALSE]
    ELSE IF Contains(Head(hrefs), DOT_XML)
         THEN [links |-> <<BASE_URL \o Head(hrefs)>>, xml |-> TRUE]
         ELSE LET rest == collect_links(Tail(hrefs))
              IN  [links |-> (IF Contains(Head(hrefs), DOT_TXT)
                              THEN <<BASE_URL \o Head(hrefs)>> ELSE <<>>)
                             \o rest.links,
                   xml |-> rest.xml]

Digits == <<"0", "1", "2", "3", "4", "5", "6", "7", "8", "9">>

\* whether int(s) returns for the str s: a run of decimal digits (the headers
\* of the model carry no sign, blank or underscore)
int_accepts(s) ==
    /\ s # <<>>
    /\ \A i \in 1..Len(s) : \E d \in 1..10 : Digits[d] = s[i]

\* int(s) for such a str
RECURSIVE int_of(_)
int_of(s) ==
    IF s = <<>> THEN 0
    ELSE 10 * int_of(SubSeq(s, 1, Len(s) - 1))
         + (CHOOSE d \in 0..9 : Digits[d + 1] = s[Len(s)])

\* The value smallest starts from.  The source writes 10^27; TLC's integers
\* are 32 bits wide, so the model starts from the largest of them, which
\* every content length of the model is below.
smallest_start == 2147483647

\* smallest_from comparing with <=: of equal lengths the last link is kept
RECURSIVE smallest_from_or_equal(_, _, _)
smallest_from_or_equal(info, smallest, smallest_link) ==
    IF info = <<>> THEN smallest_link
    ELSE IF Head(info)[2] <= smallest
         THEN smallest_from_or_equal(Tail(info), Head(info)[2], Head(info)[1])
         ELSE smallest_from_or_equal(Tail(info), smallest, smallest_link)

\* the loop over inner_links_info: the link of the first strictly smaller
\* length is kept
RECURSIVE smallest_from(_, _, _)
smallest_from(info, smallest, smallest_link) ==
    IF info = <<>> THEN smallest_link
    ELSE IF Head(info)[2] < smallest
         THEN smallest_from(Tail(info), Head(info)[2], Head(info)[1])
         ELSE smallest_from(Tail(info), smallest, smallest_link)

smallest_link_of(info) == smallest_from(info, smallest_start, <<>>)

\* the link handed to make_request when an .xml link was found
xml_link_of(links) == links[1]

-----------------------------------------------------------------------------
(* The inputs: what the command line and the network may supply *)

RECURSIVE SeqsOfLen(_, _)
SeqsOfLen(S, n) ==
    IF n = 0 THEN {<<>>}
    ELSE {<<x>> \o q : x \in S, q \in SeqsOfLen(S, n - 1)}

SeqsUpTo(S, n) == UNION {SeqsOfLen(S, k) : k \in 0..n}

Tickers == {<<"7">>}
Filters == {<<>>, <<"F">>, <<"f">>}

Cell(text, a) == [text |-> text, a |-> a]
NoAnchor == <<>>
Anchor(has_href, href) == <<[has_href |-> has_href, href |-> href]>>

TitleTexts == {<<" ", "F", "/", "A", "\n">>, <<"F", "-", "A">>, <<"G">>}
Anchors == {NoAnchor, Anchor(FALSE, <<>>), Anchor(TRUE, <<"x">>)}

\* a row of five td cells, as the index lists a filing
FullRows ==
    {<<Cell(t, NoAnchor), Cell(<<"d">>, a), Cell(<<>>, NoAnchor),
       Cell(<<"1">>, NoAnchor), Cell(<<>>, NoAnchor)>> :
        t \in TitleTexts, a \in Anchors}

\* the header row (th cells only, no td) and a row of two cells
ShortRows ==
    {<<>>, <<Cell(<<"G">>, NoAnchor), Cell(<<>>, Anchor(TRUE, <<"x">>))>>}

\* the index pages of at most n rows
IndexPages(n) ==
    {[table |-> FALSE, rows |-> <<>>]}
    \cup {[table |-> TRUE, rows |-> r] :
            r \in SeqsUpTo(FullRows \cup ShortRows, n)}

Hrefs == {<<"a", ".", "t", "x", "t">>, <<"b", ".", "t", "x", "t">>,
          <<"c", ".", "x", "m", "l">>, <<"d", ".", "h", "t", "m">>}

\* a filing detail page: whether it has a table of class tableFile, and the
\* href of each anchor of it that has one; the pages of at most n links
DetailPages(n) ==
    {[table |-> FALSE, hrefs |-> <<>>]}
    \cup {[table |-> TRUE, hrefs |-> h] : h \in SeqsUpTo(Hrefs, n)}

\* the answer to a content-length probe: the request or the header lookup
\* fails, or the header has a value
Headers == {<<"5", "0", "0">>, <<"1", "2", "0", "0", "0">>, <<"a", "b", "c">>}
Probes == {[ok |-> FALSE, header |-> <<>>]}
          \cup {[ok |-> TRUE, header |-> h] : h \in Headers}

Node(tag, depth, text, tail) ==
    [tag |-> tag, depth |-> depth, text |-> text, tail |-> tail]

TABLE_TAG == <<"T", "a", "b", "l", "e">>
TD_TAG == <<"t", "d">>

\* a document with one table element holding the text
TableDoc(text) == <<Node(TABLE_TAG, 0, text, <<>>)>>

\* the bodies a document link may return: nothing recoverable, a document
\* without a table, documents with one
Bodies == {<<>>,
           <<Node(TD_TAG, 0, <<"a", " ", "b">>, <<>>)>>,
           TableDoc(<<"a", " ", "b", "\n", "c">>),
           TableDoc(<<"c">>)}

\* what make_request may give: None stands for the request raising
Responses(S) == {None} \cup {Some(x) : x \in S}

-----------------------------------------------------------------------------
(* main *)

Raise(fn, type) ==
    /\ pc' = "crashed"
    /\ exc' = Some([fn |-> fn, type |-> type])

\* lines 222-228: the index page is requested and listed
MainStart ==
    /\ pc = "start"
    /\ \E resp \in Responses(IndexPages(MaxRows)) :
        IF resp = None
        THEN /\ Raise("make_request", "RequestException")
             /\ UNCHANGED <<page_data, docs_contents>>
        ELSE /\ page_data' = resp
             /\ LET r == get_soup_contents(resp[1], filter_text)
                IN  IF r.raised
                    THEN /\ Raise("get_soup_contents", "AttributeError")
                         /\ UNCHANGED docs_contents
                    ELSE /\ docs_contents' = r.value
                         /\ pc' = "loop"
                         /\ UNCHANGED exc
    /\ UNCHANGED <<ticker_id, filter_text, each, inner_page_data,
                   inner_links, xml_found, headers, inner_links_info,
                   requested, text_data, xml_data, res_lines, results_dir,
                   files, results_files>>

\* lines 231-235 and 112-136: the next filing; its detail page is requested,
\* the table of links is looked up and the candidate links are collected
RequestPage ==
    /\ pc = "loop"
    /\ each <= Len(docs_contents)
    /\ \E resp \in Responses(DetailPages(MaxLinks)) :
        IF resp = None
        THEN /\ Raise("extract_data_from_text_files", "RequestException")
             /\ UNCHANGED <<inner_page_data, inner_links, xml_found>>
        ELSE IF ~resp[1].table
        THEN /\ Raise("extract_data_from_text_files", "AttributeError")
             /\ inner_page_data' = resp
             /\ UNCHANGED <<inner_links, xml_found>>
        ELSE /\ inner_page_data' = resp
             /\ inner_links' = collect_links(resp[1].hrefs).links
             /\ xml_found' = collect_links(resp[1].hrefs).xml
             /\ pc' = IF collect_links(resp[1].hrefs).xml
                      THEN "fetch_xml" ELSE "probe"
             /\ UNCHANGED exc
    /\ headers' = <<>>
    /\ inner_links_info' = <<>>
    /\ requested' = None
    /\ UNCHANGED <<ticker_id, filter_text, page_data, docs_contents, each,
                   text_data, xml_data, res_lines, results_dir, files,
                   results_files>>

\* lines 139-144: the content length of the next link is probed
ProbeLength ==
    /\ pc = "probe"
    /\ Len(inner_links_info) < Len(inner_links)
    /\ \E probe \in Probes :
        LET link == inner_links[Len(inner_links_info) + 1]
        IN  /\ headers' = Append(headers, probe)
            /\ IF ~probe.ok
               THEN /\ inner_links_info' =
                        Append(inner_links_info, <<link, 0>>)
                    /\ UNCHANGED <<pc, exc>>
               ELSE IF int_accepts(probe.header)
               THEN /\ inner_links_info' =
                        Append(inner_links_info,
                               <<link, int_of(probe.header)>>)
                    /\ UNCHANGED <<pc, exc>>
               ELSE /\ Raise("extract_data_from_text_files", "ValueError")
                    /\ UNCHANGED inner_links_info
    /\ UNCHANGED <<ticker_id, filter_text, page_data, docs_contents, each,
                   inner_page_data, inner_links, xml_found, requested,
                   text_data, xml_data, res_lines, results_dir, files,
                   results_files>>

\* lines 145-158: the smallest link is chosen and its body requested; the
\* request of the empty link raises and gives None, as a failed request does
FetchSmallest ==
    /\ pc = "probe"
    /\ Len(inner_links_info) = Len(inner_links)
    /\ requested' = Some(smallest_link_of(inner_links_info))
    /\ IF smallest_link_of(inner_links_info) = <<>>
       THEN text_data' = None
       ELSE \E resp \in Responses(Bodies) : text_data' = resp
    /\ pc' = "returned"
    /\ UNCHANGED <<exc, ticker_id, filter_text, page_data, docs_contents,
                   each, inner_page_data, inner_links, xml_found, headers,
                   inner_links_info, xml_data, res_lines, results_dir, files,
                   results_files>>

\* lines 159-164: the body of the link kept for the .xml case is requested
FetchXml ==
    /\ pc = "fetch_xml"
    /\ requested' = Some(xml_link_of(inner_links))
    /\ \E resp \in Responses(Bodies) : text_data' = resp
    /\ pc' = "returned"
    /\ UNCHANGED <<exc, ticker_id, filter_text, page_data, docs_contents,
                   each, inner_page_data, inner_links, xml_found, headers,
                   inner_links_info, xml_data, res_lines, results_dir, files,
                   results_files>>

\* line 236, text_data is None: on to the next filing
SkipNoText ==
    /\ pc = "returned"
    /\ text_data = None
    /\ each' = each + 1
    /\ pc' = "loop"
    /\ UNCHANGED <<exc, ticker_id, filter_text, page_data, docs_contents,
                   inner_page_data, inner_links, xml_found, headers,
                   inner_links_info, requested, text_data, xml_data,
                   res_lines, results_dir, files, results_files>>

\* lines 236-237: the tables of the document are extracted
ExtractXml ==
    /\ pc = "returned"
    /\ text_data # None
    /\ xml_data' = extract_xml_content_from_text(text_data[1])
    /\ pc' = "parsed"
    /\ UNCHANGED <<exc, ticker_id, filter_text, page_data, docs_contents,
                   each, inner_page_data, inner_links, xml_found, headers,
                   inner_links_info, requested, text_data, res_lines,
                   results_dir, files, results_files>>

\* line 239, xml_data is None: on to the next filing
SkipNoXml ==
    /\ pc = "parsed"
    /\ xml_data = None
    /\ each' = each + 1
    /\ pc' = "loop"
    /\ UNCHANGED <<exc, ticker_id, filter_text, page_data, docs_contents,
                   inner_page_data, inner_links, xml_found, headers,
                   inner_links_info, requested, text_data, xml_data,
                   res_lines, results_dir, files, results_files>>

\* lines 243-244: the name of the filing's file
filename_of(ticker, doc) ==
    replace(ticker \o <<"_">> \o doc[1] \o <<"_">> \o doc[3]
            \o <<"_", "r", "e", "s", "u", "l", "t", "s">>, "/", "-")

\* lines 239-248: the file of the filing is written and its name recorded
Convert ==
    /\ pc = "parsed"
    /\ xml_data # None
    /\ LET filename == filename_of(ticker_id, docs_contents[each])
       IN  /\ convert_to_tsv(filename, xml_data[1])
           /\ results_files' =
                Append(results_files, filename \o <<".", "t", "s", "v">>)
    /\ each' = each + 1
    /\ pc' = "loop"
    /\ UNCHANGED <<exc, ticker_id, filter_text, page_data, docs_contents,
                   inner_page_data, inner_links, xml_found, headers,
                   inner_links_info, requested, text_data, xml_data>>

\* line 249: the loop is over and the list of files is printed
Finish ==
    /\ pc = "loop"
    /\ each > Len(docs_contents)
    /\ pc' = "done"
    /\ UNCHANGED <<exc, ticker_id, filter_text, page_data, docs_contents,
                   each, inner_page_data, inner_links, xml_found, headers,
                   inner_links_info, requested, text_data, xml_data,
                   res_lines, results_dir, files, results_files>>

\* main(ticker_id, filter_text) is called in a directory without results
Init ==
    /\ pc = "start"
    /\ exc = None
    /\ ticker_id \in Tickers
    /\ filter_text \in Filters
    /\ page_data = None
    /\ docs_contents = <<>>
    /\ each = 1
    /\ inner_page_data = None
    /\ inner_links = <<>>
    /\ xml_found = FALSE
    /\ headers = <<>>
    /\ inner_links_info = <<>>
    /\ requested = None
    /\ text_data = None
    /\ xml_data = None
    /\ res_lines = <<>>
    /\ results_dir = FALSE
    /\ files = <<>>
    /\ results_files = <<>>

Next ==
    \/ MainStart
    \/ RequestPage
    \/ ProbeLength
    \/ FetchSmallest
    \/ FetchXml
    \/ SkipNoText
    \/ ExtractXml
    \/ SkipNoXml
    \/ Convert
    \/ Finish

Spec == Init /\ [][Next]_vars

-----------------------------------------------------------------------------
(* The functions on their own: main taken up at the call, with an index    *)
(* page of one filing listed, and inputs drawn from larger sets            *)

OneFilingPage ==
    [table |-> TRUE,
     rows |-> <<<<Cell(<<"G">>, NoAnchor), Cell(<<"d">>, Anchor(TRUE, <<"x">>)),
                  Cell(<<>>, NoAnchor), Cell(<<"1">>, NoAnchor),
                  Cell(<<>>, NoAnchor)>>>>]

\* main after get_soup_contents has listed OneFilingPage with the empty filter
Listed ==
    /\ exc = None
    /\ ticker_id \in Tickers
    /\ filter_text = <<>>
    /\ page_data = Some(OneFilingPage)
    /\ docs_contents = get_soup_contents(OneFilingPage, <<>>).value
    /\ each = 1
    /\ res_lines = <<>>
    /\ results_dir = FALSE
    /\ files = <<>>
    /\ results_files = <<>>

\* extract_data_from_text_files is about to be called
InitSel ==
    /\ Listed
    /\ pc = "loop"
    /\ inner_page_data = None
    /\ inner_links = <<>>
    /\ xml_found = FALSE
    /\ headers = <<>>
    /\ inner_links_info = <<>>
    /\ requested = None
    /\ text_data = None
    /\ xml_data = None

NextSel == RequestPage \/ ProbeLength \/ FetchSmallest \/ FetchXml

SpecSel == InitSel /\ [][NextSel]_vars

\* extract_data_from_text_files has returned the body of the page's .xml link
Fetched(doc) ==
    /\ Listed
    /\ inner_page_data =
         Some([table |-> TRUE, hrefs |-> <<<<"c", ".", "x", "m", "l">>>>])
    /\ inner_links = <<BASE_URL \o <<"c", ".", "x", "m", "l">>>>
    /\ xml_found = TRUE
    /\ headers = <<>>
    /\ inner_links_info = <<>>
    /\ requested = Some(BASE_URL \o <<"c", ".", "x", "m", "l">>)
    /\ text_data = Some(doc)

\* the texts and tails of the nodes: plain text, the noise markers, and the
\* two halves of one
XmlTexts ==
    {<<"x", "\n", "y">>,
     <<"T", "o", "t", "a", "l", " ">>,
     <<"S", " ", "R", "E", "P", "O", "R", "T", " ", "S", "U", "M", "M", "A",
       "R", "Y", "\n",
       "F", "O", "R", "M", " ", "1", "3", "F", " ", "I", "N", "F", "O", "R",
       "M", "A", "T", "I", "O", "N", " ", "T", "A", "B", "L", "E", "\n",
       "S", "H", "A", "R", "E", "S", "/", " ", "S", "H", "/", " ", "P", "U",
       "T", "/", " ", "I", "N", "V", "S", "T", "M", "T">>}
XmlTails == {<<>>, <<" ", " ", "(", " ", "9">>}
XmlTags == {TABLE_TAG, TD_TAG}

\* the nodes of a document of n nodes
XmlNodes(n) ==
    [tag : XmlTags, depth : 0..(n - 1), text : XmlTexts, tail : XmlTails]

\* nodes in document order: a root without a tail, then each node at most
\* one level deeper than the node before it
is_tree(doc) ==
    Len(doc) >= 1 =>
        /\ doc[1].depth = 0
        /\ doc[1].tail = <<>>
        /\ \A k \in 2..Len(doc) :
            doc[k].depth >= 1 /\ doc[k].depth <= doc[k - 1].depth + 1

\* extract_xml_content_from_text is about to be called on a document of at
\* most MaxNodes nodes (of none: nothing is recovered from it)
InitXml ==
    /\ pc = "returned"
    /\ \E n \in 0..MaxNodes :
        \E doc \in [1..n -> XmlNodes(n)] :
            /\ is_tree(doc)
            /\ Fetched(SubSeq(doc, 1, n))
    /\ xml_data = None

NextXml == ExtractXml

SpecXml == InitXml /\ [][NextXml]_vars

TsvChars == {"a", "b", " ", "\t", "\n"}
TsvSeparators == {<<" ">>, <<" ", " ">>, <<"\t">>, <<"\n">>}
Letters == <<"a", "b", "c", "d", "e", "f", "g", "h", "i", "j">>

\* texts of n distinct tokens with a separator between each two
RECURSIVE LongTexts(_)
LongTexts(n) ==
    IF n = 1 THEN {<<Letters[1]>>}
    ELSE {t \o sep \o <<Letters[n]>> :
            t \in LongTexts(n - 1), sep \in TsvSeparators}

\* the texts of at most n characters, and those of m tokens
TsvTexts(n, m) == SeqsUpTo(TsvChars, n) \cup LongTexts(m)

\* convert_to_tsv is about to be called with the text of a document's table
InitTsv ==
    /\ pc = "parsed"
    /\ \E text \in TsvTexts(MaxText, NumTokens) :
        /\ Fetched(TableDoc(text))
        /\ xml_data = extract_xml_content_from_text(TableDoc(text))

NextTsv == Convert

SpecTsv == InitTsv /\ [][NextTsv]_vars

-----------------------------------------------------------------------------
(* Properties *)

\* how often x is in list
count(list, x) == Cardinality({i \in 1..Len(list) : list[i] = x})

same_multiset(A, B) ==
    \A x \in {A[i] : i \in 1..Len(A)} \cup {B[i] : i \in 1..Len(B)} :
        count(A, x) = count(B, x)

\* A is B with some elements left out
RECURSIVE is_subsequence(_, _)
is_subsequence(A, B) ==
    IF A = <<>> THEN TRUE
    ELSE IF B = <<>> THEN FALSE
    ELSE IF Head(A) = Head(B) THEN is_subsequence(Tail(A), Tail(B))
    ELSE is_subsequence(A, Tail(B))

RECURSIVE titles_of(_)
titles_of(list) ==
    IF list = <<>> THEN <<>>
    ELSE <<Head(list)[1]>> \o titles_of(Tail(list))

\* a row with a title cell, a filing-date cell and an anchor in column 1
has_title_date_anchor(row) == Len(row) >= 4 /\ row[2].a # NoAnchor

RECURSIVE listable_titles(_)
listable_titles(rows) ==
    IF rows = <<>> THEN <<>>
    ELSE (IF has_title_date_anchor(Head(rows))
          THEN <<strip(Head(rows)[1].text)>> ELSE <<>>)
         \o listable_titles(Tail(rows))

RECURSIVE row_titles(_)
row_titles(rows) ==
    IF rows = <<>> THEN <<>>
    ELSE (IF Len(Head(rows)) >= 1
          THEN <<strip(Head(rows)[1].text)>> ELSE <<>>)
         \o row_titles(Tail(rows))

\* C1: once the index page has been fetched, get_soup_contents has returned a
\* list (it has not raised) of at most as many filings as the table has rows,
\* in document order, each title containing the filter; with the empty filter
\* the list has every row with a title cell, a date cell and an anchor in
\* column 1.
C1_ListerContract ==
    page_data # None =>
        /\ ~(exc # None /\ exc[1].fn = "get_soup_contents")
        /\ Len(docs_contents) <= Len(page_data[1].rows)
        /\ is_subsequence(titles_of(docs_contents),
                          row_titles(page_data[1].rows))
        /\ \A i \in 1..Len(docs_contents) :
                Contains(docs_contents[i][1], filter_text)
        /\ (filter_text = <<>> /\ pc # "start") =>
                titles_of(docs_contents) = listable_titles(page_data[1].rows)

has_xml(hrefs) == \E i \in 1..Len(hrefs) : Contains(hrefs[i], DOT_XML)

first_xml(hrefs) ==
    hrefs[CHOOSE i \in 1..Len(hrefs) :
            /\ Contains(hrefs[i], DOT_XML)
            /\ \A j \in 1..(i - 1) : ~Contains(hrefs[j], DOT_XML)]

\* C2: when the detail page has an .xml link, the body asked for is that of
\* its first .xml link, whatever .txt links stand before it.
C2_FirstXmlLinkFetched ==
    (pc = "returned" /\ has_xml(inner_page_data[1].hrefs)) =>
        requested = Some(BASE_URL \o first_xml(inner_page_data[1].hrefs))

is_txt(href) == Contains(href, DOT_TXT)

RECURSIVE with_base(_)
with_base(hrefs) ==
    IF hrefs = <<>> THEN <<>>
    ELSE <<BASE_URL \o Head(hrefs)>> \o with_base(Tail(hrefs))

\* the plain-text candidates of a page, in document order
txt_candidates(hrefs) == with_base(SelectSeq(hrefs, is_txt))

\* the content length a probe reports: zero when it cannot be determined
reported(probe) == IF probe.ok THEN int_of(probe.header) ELSE 0

\* the first candidate of minimum reported length
first_minimum(probes) ==
    CHOOSE i \in 1..Len(probes) :
        /\ \A j \in 1..Len(probes) : reported(probes[i]) <= reported(probes[j])
        /\ \A j \in 1..(i - 1) : reported(probes[j]) > reported(probes[i])

\* C3: when the detail page has no .xml link and at least one .txt link, the
\* body asked for is that of the .txt link of minimum reported content
\* length, an undetermined length counting as zero, the first such link on
\* a tie.
C3_SmallestTxtFetched ==
    (/\ pc = "returned"
     /\ ~has_xml(inner_page_data[1].hrefs)
     /\ txt_candidates(inner_page_data[1].hrefs) # <<>>) =>
        requested =
            Some(txt_candidates(inner_page_data[1].hrefs)[first_minimum(headers)])

\* C3, its case: of two .txt links the second reports 500 bytes, the first
\* 12000, and the second is fetched; and elsewhere two lengths tie.
C3_Witness ==
    /\ pc = "returned"
    /\ ~has_xml(inner_page_data[1].hrefs)
    /\ Len(headers) = 2
    /\ headers[1].ok /\ reported(headers[1]) = 12000
    /\ headers[2].ok /\ reported(headers[2]) = 500
    /\ inner_links[1] # inner_links[2]
    /\ requested = Some(inner_links[2])

\* C4: no exception leaves extract_data_from_text_files.
C4_SelectorNeverRaises ==
    ~(exc # None /\ exc[1].fn = "extract_data_from_text_files")

\* C5: when the index page yields no matching filing (it may have no filings
\* table at all), main has not crashed, has listed no file and has created
\* neither a file nor the directory.
C5_NoMatchNoCrash ==
    (/\ page_data # None
     /\ ~\E i \in 1..Len(page_data[1].rows) :
            row_appended(page_data[1].rows[i], filter_text)) =>
        /\ pc # "crashed"
        /\ results_files = <<>>
        /\ DOMAIN files = {}
        /\ ~results_dir

has_table_node(doc) == \E i \in 1..Len(doc) : is_table(doc[i])

\* C6: for a document without a table node extract_xml_content_from_text
\* returns None, so that the driver writes no file for the filing.
C6_NoTableGivesNone ==
    (pc = "parsed" /\ text_data # None /\ ~has_table_node(text_data[1])) =>
        xml_data = None

\* C7: no line of the returned text block has a noise marker in it.
C7_NoNoiseLine ==
    (pc = "parsed" /\ xml_data # None) =>
        \A i \in 1..Len(split_on(xml_data[1], "\n")) :
            \A k \in 1..Len(filter_vals) :
                ~Contains(split_on(xml_data[1], "\n")[i], filter_vals[k])

\* C7, its case: a table inside a table, a marker in the document's text, and
\* a block that is not empty.
C7_Witness ==
    /\ pc = "parsed"
    /\ xml_data # None
    /\ xml_data[1] # <<>>
    /\ \E i, j \in 1..Len(text_data[1]) :
        /\ i < j /\ j <= subtree_end(text_data[1], i)
        /\ is_table(text_data[1][i]) /\ is_table(text_data[1][j])
    /\ \E k \in 1..Len(filter_vals) :
        Contains(itertext(text_data[1], 1), filter_vals[k])

\* convert_to_tsv has just run on xml_data
Converted == pc = "loop" /\ xml_data # None /\ res_lines # <<>>

no_token_twice(line) ==
    \A i, j \in 1..Len(split_ws(line)) :
        split_ws(line)[i] = split_ws(line)[j] => i = j

\* C8: for a line without a repeated token, the tokens of field 0 together
\* with the other fields are the line's tokens, each as often, and the other
\* fields stand in the order they have in the line.
C8_TokensConserved ==
    Converted =>
        \A i \in 1..Len(res_lines) :
            LET line == split_on(strip(xml_data[1]), "\n")[i]
                rec == res_lines[i]
            IN  no_token_twice(line) =>
                    /\ same_multiset(split_ws(rec[1]) \o Tail(rec),
                                     split_ws(line))
                    /\ is_subsequence(Tail(rec), split_ws(line))

\* a line of spaces only (or empty)
only_spaces(line) == \A i \in 1..Len(line) : line[i] = " "

\* a line of whitespace only (or empty)
blank(line) == \A i \in 1..Len(line) : line[i] \in Whitespace

\* C9 as stated: one record per line of the block, in order, and for every
\* blank line of it the record of an empty name alone.
C9_RecordPerLine ==
    Converted =>
        LET lines == split_on(xml_data[1], "\n")
        IN  /\ Len(res_lines) = Len(lines)
            /\ \A i \in 1..Len(lines) :
                (i <= Len(res_lines) /\ blank(lines[i])) =>
                    res_lines[i] = <<<<>>>>

\* C9 as amended: one record per line of the block stripped of its leading
\* and trailing whitespace, the i-th from the i-th such line; a line of it that
\* is empty or all spaces gives the record of an empty name alone, and any
\* blank line a record without further fields.
C9_RecordPerStrippedLine ==
    Converted =>
        LET lines == split_on(strip(xml_data[1]), "\n")
        IN  /\ Len(res_lines) = Len(lines)
            /\ \A i \in 1..Len(lines) :
                i <= Len(res_lines) =>
                    /\ res_lines[i][1] =
                         join(<<" ">>,
                              filter_none(Take(split_on(lines[i], " "), 6)))
                    /\ only_spaces(lines[i]) => res_lines[i] = <<<<>>>>
                    /\ blank(lines[i]) => Len(res_lines[i]) = 1

\* C9, its case: a block that starts with a blank line and has an empty line
\* between two others.
C9_Witness ==
    /\ Converted
    /\ xml_data[1] # <<>> /\ xml_data[1][1] = "\n"
    /\ Len(res_lines) = 3
    /\ res_lines[2] = <<<<>>>>
    /\ res_lines[1] # <<<<>>>> /\ res_lines[3] # <<<<>>>>

\* C10: at the end of main there are as many files under results as names
\* in the reported list: no file was written twice.
C10_OneFilePerFiling ==
    pc = "done" => Cardinality(DOMAIN files) = Len(results_files)

====
